---------------------------- MODULE Spec2Model ----------------------------
(***************************************************************************)
(* Model of the segmentation-and-gating engine of nrz-ai:                  *)
(*   SpeechProcessor.ProcessStream (src/cmd/nrz-ai/main.go), the wake-word *)
(*   gate with its deactivation timer goroutines, and the RMS voice        *)
(*   activity detector RMSDetector (src/unnamed/part_007);                 *)
(* and of the conversation history Conversation                            *)
(*   (src/internal/ai/conversation.go).                                    *)
(*                                                                         *)
(* Specifications.  Spec and FairSpec run the engine with the conversation *)
(* left as constructed; ConvSpec runs the operations of a Conversation     *)
(* with the engine left idle; ConcSpec runs them from two goroutines, one  *)
(* statement per step; BytesSpec decodes byte chunks (ProcessBytes);       *)
(* WakeSpec runs the wake-word block of the sample loop on a buffer with   *)
(* its contents; LevelSpec feeds arbitrary amplitudes to calculateRMS;     *)
(* AiSpec runs transcribeAndOutput and processWithAI on handed-off         *)
(* utterances; DetectorSpec calls the methods of an RMSDetector in any     *)
(* order; ShutdownSpec interleaves the sample loop, the deferred Close and *)
(* the signal goroutine statement by statement.                            *)
(*                                                                         *)
(* Numbers.  Samples are amplitudes in thousandths (500 is 0.5); squares,  *)
(* RMS levels and thresholds are float32 in the source and fixed-point     *)
(* numbers in millionths here (One is 1.0), every division rounding down.  *)
(*                                                                         *)
(* Scale.  The program's constants keep their names and their relations    *)
(* but are scaled down (sampleRate is 6 instead of 16000, a read chunk     *)
(* holds 2 samples instead of 1024, the 30 s sleep is 1 clock tick) so     *)
(* that every branch of the sample loop is reached in a small state space. *)
(*                                                                         *)
(* Buffers.  The code never inspects the contents of audioBuffer and       *)
(* wakeWordBuffer, it only appends, truncates, measures and hands them to  *)
(* the Recognizer, so each buffer is modelled by its length.               *)
(*                                                                         *)
(* Concurrency.  The main loop runs one sample per step; a timer goroutine *)
(* (go sp.startListeningTimeout()) sleeps and then writes listeningActive  *)
(* with no lock, so its write interleaves freely with the sample steps.    *)
(***************************************************************************)
EXTENDS Integers, Naturals, Sequences, FiniteSets, TLC

\* ---------------------------------------------------------------------
\* Program constants (scaled, see above)
\* ---------------------------------------------------------------------
sampleRate == 6
readChunkSize == 8
silenceDurationMs == 800
minSpeechDurationMs == 500
maxBufferDurationS == 1
rmsWindowSize == 2
noiseFloorSamples == 2
\* time.Sleep(30 * time.Second), in clock ticks
listeningTimeout == 1

\* 1.0 in fixed point
One == 1000 * 1000
\* silenceThreshold = 0.01
silenceThreshold == One \div 100

\* ---------------------------------------------------------------------
\* Bounds of the model
\* ---------------------------------------------------------------------
\* timer goroutines pending at once: the wake word is not heard again while
\* this many are pending
MaxTimers == 2

\* amplitudes a sample takes: digital silence and a loud sample (0.5)
Samples == {0, 500}
\* what the Recognizer makes of the wake-word buffer
Heard == {"match", "nomatch", "error"}
\* what the Recognizer makes of an utterance
Results == {"text", "empty", "error"}

\* ---------------------------------------------------------------------
\* Derived sizes
\* ---------------------------------------------------------------------
maxBufferSize == sampleRate * maxBufferDurationS
silenceThresholdSamples == (silenceDurationMs * sampleRate) \div 1000
minSpeechSamples == (minSpeechDurationMs * sampleRate) \div 1000
wakeWordCapacity == sampleRate * 2
wakeWordEvict == sampleRate \div 4
wakeWordCheckEvery == sampleRate \div 2

VARIABLES
    pc,                 \* main loop: "read", "samples", "ceiling", "done"
    remaining,          \* samples of the current chunk not yet processed
    wakeWordEnabled,    \* sp.wakeWordEnabled (configuration)
    listeningActive,    \* sp.listeningActive
    wakeWordBufferLen,  \* len(sp.wakeWordBuffer)
    audioBufferLen,     \* len(sp.audioBuffer)
    vad,                \* the RMSDetector
    timers,             \* pending startListeningTimeout goroutines, oldest
                        \* first: ticks each has slept so far
    ev,                 \* what the last step did (observation only)
    samplesRead,        \* samples read from the stream so far, counted up to
                        \* noiseFloorSamples (observation only)
    audioStreamOpen,    \* the AudioStream of StartCapture is not closed
    whisperOpen,        \* the whisper Service is not closed
    messages,           \* c.messages
    systemPrompt,       \* c.systemPrompt
    maxHistory,         \* c.maxHistory
    added,              \* every message passed to AddMessage so far, in call
                        \* order (observation only)
    addOnly,            \* no method but AddMessage was called so far
                        \* (observation only)
    lastCall,           \* the last method called and its argument
                        \* (observation only)
    mutex,              \* c.mutex: the goroutine holding the write lock and
                        \* the goroutines holding read locks
    callers,            \* per goroutine: where it is in its call, the
                        \* argument of the call, the slice GetMessages last
                        \* returned to it
    committed,          \* c.messages as the last complete mutating call left
                        \* it (observation only)
    bytesIn,            \* the chunk given to the last ProcessBytes call
    samplesOut,         \* the samples that call returned
    prevRest,           \* bytes the call before it left over, len % 4
                        \* (observation only)
    wakeWordBuffer,     \* sp.wakeWordBuffer with its contents
    wakeStreamPos,      \* samples read so far
    sinceSubmit,        \* samples appended since the wake-word buffer was
                        \* last submitted to the Recognizer (observation only)
    wakeEv,             \* what the last sample did to the wake-word buffer
                        \* (observation only)
    levelWindow,        \* r.rmsBuffer of a detector fed arbitrary amplitudes
    levelOut,           \* the rmsLevel calculateRMS returned for it
    aiProbe,            \* what runApp did about the AI service: "off" (not
                        \* configured), "failed" or "ok" (IsAvailable)
    aiEnabled,          \* sp.aiEnabled
    aiMaxHistory,       \* maxHistory of sp.conversation
    aiHistory,          \* messages of sp.conversation
    aiEv,               \* what the last transcribeAndOutput did
                        \* (observation only)
    rmsDetector,        \* an RMSDetector whose methods are called in any
                        \* order
    sinceInitialize,    \* samples it processed since the last Initialize,
                        \* counted up to noiseFloorSamples (observation only)
    detectorEv,         \* what the last call did (observation only)
    process,            \* the process: "running", "returned" (runApp
                        \* returned), "exited" (os.Exit), "crashed"
    mainPc,             \* the main goroutine: "loop", "transcribing", or
                        \* where it is in the deferred processor.Close()
    signalPc,           \* the signal goroutine: "wait", or where it is in
                        \* processor.Close(), or "exit"
    isLoaded,           \* isLoaded of the whisper Service
    modelClosed,        \* times s.model.Close() was entered
    transcribeCalls,    \* Transcribe calls so far
    shutdownEv          \* what the last step did (observation only)

engineVars == <<pc, remaining, wakeWordEnabled, listeningActive,
                wakeWordBufferLen, audioBufferLen, vad, timers, ev, samplesRead,
                audioStreamOpen, whisperOpen>>

convVars == <<messages, systemPrompt, maxHistory, added, addOnly, lastCall>>

concVars == <<mutex, callers, committed>>

bytesVars == <<bytesIn, samplesOut, prevRest>>

wakeVars == <<wakeWordBuffer, wakeStreamPos, sinceSubmit, wakeEv>>

levelVars == <<levelWindow, levelOut>>

aiVars == <<aiProbe, aiEnabled, aiMaxHistory, aiHistory, aiEv>>

detectorVars == <<rmsDetector, sinceInitialize, detectorEv>>

shutdownVars == <<process, mainPc, signalPc, isLoaded, modelClosed, transcribeCalls,
                  shutdownEv>>

\* the variables outside of the engine and of the Conversation
auxVars == <<concVars, bytesVars, wakeVars, levelVars, aiVars, detectorVars,
            shutdownVars>>

\* what the steps of the concurrent callers leave alone
concOthers == <<engineVars, bytesVars, wakeVars, levelVars, aiVars, detectorVars,
               shutdownVars>>

\* what a call of ProcessBytes leaves alone
bytesOthers == <<engineVars, convVars, concVars, wakeVars, levelVars, aiVars, detectorVars,
               shutdownVars>>

\* what the wake-word block of the sample loop leaves alone
wakeOthers == <<engineVars, convVars, concVars, bytesVars, levelVars, aiVars, detectorVars,
               shutdownVars>>

\* what the level computation of the detector leaves alone
levelOthers == <<engineVars, convVars, concVars, bytesVars, wakeVars, aiVars, detectorVars,
               shutdownVars>>

\* what the processing of a handed-off utterance leaves alone
aiOthers == <<engineVars, convVars, concVars, bytesVars, wakeVars, levelVars,
             detectorVars, shutdownVars>>

\* what the methods of an RMSDetector leave alone
detectorOthers == <<engineVars, convVars, concVars, bytesVars, wakeVars, levelVars,
                   aiVars, shutdownVars>>

\* what the steps of the shutdown leave alone
shutdownOthers == <<engineVars, convVars, concVars, bytesVars, wakeVars, levelVars,
                   aiVars, detectorVars>>

vars == <<engineVars, convVars, auxVars>>

\* ---------------------------------------------------------------------
\* RMSDetector
\* ---------------------------------------------------------------------
RECURSIVE SumSeq(_)
SumSeq(s) == IF s = <<>> THEN 0 ELSE Head(s) + SumSeq(Tail(s))

\* a / b in fixed point, floor(a * One / b), without leaving 32 bits
FDiv(a, b) ==
    LET q1 == (a * 1000) \div b
        r1 == (a * 1000) % b
    IN  q1 * 1000 + (r1 * 1000) \div b

RECURSIVE Newton(_, _, _)
Newton(x, meanSquare, i) ==
    IF i = 0 THEN x
    ELSE Newton((x + FDiv(meanSquare, x)) \div 2, meanSquare, i - 1)

calculateRMS(rmsBuffer) ==
    IF Len(rmsBuffer) = 0 THEN 0
    ELSE LET meanSquare == SumSeq(rmsBuffer) \div Len(rmsBuffer)
         IN  IF meanSquare <= 0 THEN 0
             ELSE Newton(meanSquare, meanSquare, 5)

\* mutant: Initialize leaves the threshold as NewRMSDetector made it
VadInitialize_NoThreshold ==
    [ rmsBuffer |-> <<>>,
      silenceSamples |-> 0,
      speechSamples |-> 0,
      isSpeaking |-> FALSE,
      noiseFloorSamplesCount |-> 0,
      noiseFloorSum |-> 0,
      adaptiveThreshold |-> 0,
      calibrating |-> TRUE ]

\* NewRMSDetector followed by Initialize
VadInitialize ==
    [ rmsBuffer |-> <<>>,
      silenceSamples |-> 0,
      speechSamples |-> 0,
      isSpeaking |-> FALSE,
      noiseFloorSamplesCount |-> 0,
      noiseFloorSum |-> 0,
      adaptiveThreshold |-> silenceThreshold,
      calibrating |-> TRUE ]

\* the sliding window after the square of the sample is appended
PushWindow(rmsBuffer, sample) ==
    LET b == Append(rmsBuffer, sample * sample)
    IN  IF Len(b) > rmsWindowSize THEN Tail(b) ELSE b

\* mutant: the threshold is not held at SilenceThreshold
Calibrate_NoFloor(r, rmsLevel) ==
    LET sum == r.noiseFloorSum + rmsLevel
        cnt == r.noiseFloorSamplesCount + 1
    IN  IF cnt >= noiseFloorSamples
        THEN [r EXCEPT !.noiseFloorSum = sum,
                       !.noiseFloorSamplesCount = cnt,
                       !.adaptiveThreshold = (sum \div noiseFloorSamples) * 3,
                       !.calibrating = FALSE]
        ELSE [r EXCEPT !.noiseFloorSum = sum, !.noiseFloorSamplesCount = cnt]

\* the calibration branch of ProcessSample
Calibrate(r, rmsLevel) ==
    LET sum == r.noiseFloorSum + rmsLevel
        cnt == r.noiseFloorSamplesCount + 1
    IN  IF cnt >= noiseFloorSamples
        THEN LET noiseFloor == sum \div noiseFloorSamples
                 t == noiseFloor * 3
             IN  [r EXCEPT !.noiseFloorSum = sum,
                           !.noiseFloorSamplesCount = cnt,
                           !.adaptiveThreshold =
                               IF t < silenceThreshold THEN silenceThreshold ELSE t,
                           !.calibrating = FALSE]
        ELSE [r EXCEPT !.noiseFloorSum = sum, !.noiseFloorSamplesCount = cnt]

\* mutant: a level at or under the threshold ends the speech at once
Decide_SilenceEndsSpeech(r, rmsLevel) ==
    IF rmsLevel > r.adaptiveThreshold
    THEN [r EXCEPT !.isSpeaking = TRUE,
                   !.silenceSamples = 0,
                   !.speechSamples = r.speechSamples + 1]
    ELSE [r EXCEPT !.isSpeaking = FALSE]

\* the decision branch of ProcessSample
Decide(r, rmsLevel) ==
    IF rmsLevel > r.adaptiveThreshold
    THEN [r EXCEPT !.isSpeaking = TRUE,
                   !.silenceSamples = 0,
                   !.speechSamples = r.speechSamples + 1]
    ELSE IF r.isSpeaking
         THEN [r EXCEPT !.silenceSamples = r.silenceSamples + 1]
         ELSE r

\* "if r.calibrating && r.noiseFloorSamplesCount < r.config.NoiseFloorSamples"
InCalibration(r) == r.calibrating /\ r.noiseFloorSamplesCount < noiseFloorSamples

\* mutant: the calibration branch does not return, the decision follows it
ProcessSample_FallThrough(r, sample) ==
    LET w == PushWindow(r.rmsBuffer, sample)
        r1 == [r EXCEPT !.rmsBuffer = w]
        rmsLevel == calculateRMS(w)
    IN  IF InCalibration(r1)
        THEN Decide(Calibrate(r1, rmsLevel), rmsLevel)
        ELSE Decide(r1, rmsLevel)

ProcessSample(r, sample) ==
    LET w == PushWindow(r.rmsBuffer, sample)
        r1 == [r EXCEPT !.rmsBuffer = w]
        rmsLevel == calculateRMS(w)
    IN  IF r1.calibrating /\ r1.noiseFloorSamplesCount < noiseFloorSamples
        THEN Calibrate(r1, rmsLevel)
        ELSE Decide(r1, rmsLevel)

\* the value ProcessSample returns: false from the calibration branch,
\* r.isSpeaking from the decision branch
ProcessSampleReturns(r, sample) ==
    IF InCalibration(r) THEN FALSE ELSE ProcessSample(r, sample).isSpeaking

Reset(r) ==
    [r EXCEPT !.silenceSamples = 0, !.speechSamples = 0, !.isSpeaking = FALSE]

\* whether ProcessSample on r takes its decision branch with a level above
\* the threshold
AboveThreshold(r, sample) ==
    /\ ~(r.calibrating /\ r.noiseFloorSamplesCount < noiseFloorSamples)
    /\ calculateRMS(PushWindow(r.rmsBuffer, sample)) > r.adaptiveThreshold

\* ---------------------------------------------------------------------
\* Conversation
\* ---------------------------------------------------------------------
\* "maxHistory = 50 // Default"
defaultMaxHistory == 50

\* largest maxHistory a run passes to NewConversation
MaxConfigured == 3
\* AddMessage calls in a run
MaxAdds == 5

\* roles of the messages passed to AddMessage
Roles == {"user", "assistant", "system"}
\* prompts passed to SetSystemPrompt
Prompts == {"", "p", "q"}

\* the maxHistory NewConversation(n) stores
NewConversation(n) == IF n <= 0 THEN defaultMaxHistory ELSE n

Message(role, content) == [role |-> role, content |-> content]

\* 1-based index of the first message of role "system", 0 when there is none
\* (the "for i, msg := range c.messages ... break" loops)
FirstSystem(msgs) ==
    IF \E i \in 1..Len(msgs) : msgs[i].role = "system"
    THEN CHOOSE i \in 1..Len(msgs) :
            /\ msgs[i].role = "system"
            /\ \A j \in 1..(i - 1) : msgs[j].role # "system"
    ELSE 0

\* mutant: the system message is not looked for
TrimHistory_DropSystem(a, max) == SubSeq(a, Len(a) - max + 1, Len(a))

\* mutant: the newest messages are evicted instead of the oldest
TrimHistory_KeepOldest(a, max) ==
    LET i == FirstSystem(a)
    IN  IF i > 0 THEN <<a[i]>> \o SubSeq(a, 1, max - 1)
        ELSE SubSeq(a, 1, max)

\* the branch "if len(c.messages) > c.maxHistory" of AddMessage
TrimHistory(a, max) ==
    LET i == FirstSystem(a)
    IN  IF i > 0 THEN <<a[i]>> \o SubSeq(a, Len(a) - max + 2, Len(a))
        ELSE SubSeq(a, Len(a) - max + 1, Len(a))

\* c.messages after AddMessage(m)
AfterAddMessage(msgs, m, max) ==
    LET a == Append(msgs, m)
    IN  IF Len(a) > max THEN TrimHistory(a, max) ELSE a

\* mutant: the system message is cleared with the rest
AfterClearHistory_Everything(msgs) == <<>>

\* c.messages after ClearHistory()
AfterClearHistory(msgs) ==
    LET i == FirstSystem(msgs)
    IN  IF i > 0 THEN <<msgs[i]>> ELSE <<>>

\* c.messages after SetSystemPrompt(p)
AfterSetSystemPrompt(msgs, p) ==
    LET i == FirstSystem(msgs)
        rest == IF i > 0 THEN SubSeq(msgs, 1, i - 1) \o SubSeq(msgs, i + 1, Len(msgs))
                ELSE msgs
    IN  IF p # "" THEN <<Message("system", p)>> \o rest ELSE rest

GetMessages == messages

GetMessageCount == Len(messages)

NoCall == [op |-> "NewConversation", arg |-> ""]

\* the conversation as runApp constructs it, before any message
ConvIdle ==
    /\ messages = <<>>
    /\ systemPrompt = ""
    /\ maxHistory = NewConversation(0)
    /\ added = <<>>
    /\ addOnly = TRUE
    /\ lastCall = NoCall

\* ---------------------------------------------------------------------
\* Conversation: concurrent callers
\* ---------------------------------------------------------------------
\* Each method is run by a goroutine in the steps of its code, between the
\* acquisition and the release of c.mutex.  A slice handed out by
\* GetMessages is a record: items is what its holder reads in it, shared
\* tells whether it still lies in the backing array of c.messages, and off is
\* the number of elements by which c.messages has since been resliced past
\* its start.

\* AddMessage calls in a concurrent run
MaxConcAdds == 2

\* the goroutines that call the Conversation
Callers == {"g1", "g2"}

\* roles and prompts the goroutines pass
ConcRoles == {"user", "system"}
ConcPrompts == {"", "p"}

\* maxHistory of the Conversation the goroutines share
ConcHistories == {1, 2}

NoSlice == [shared |-> FALSE, off |-> 0, items |-> <<>>]

FreeMutex == [writer |-> "", readers |-> {}]

\* sync.RWMutex: Lock succeeds when nobody holds the mutex
MayLock(m) == m.writer = "" /\ m.readers = {}

\* mutant: GetMessages takes no lock
MayRLock_NoLock(m) == TRUE

\* sync.RWMutex: RLock succeeds when no writer holds the mutex
MayRLock(m) == m.writer = ""

\* mutant: GetMessages returns c.messages itself
GetMessagesResult_NoCopy(msgs) == [shared |-> TRUE, off |-> 0, items |-> msgs]

\* "messages := make([]Message, len(c.messages)); copy(messages, c.messages)"
GetMessagesResult(msgs) == [shared |-> FALSE, off |-> 0, items |-> msgs]

\* a handed-out slice after c.messages got a new backing array
Detached(res) == [res EXCEPT !.shared = FALSE]

\* a handed-out slice after c.messages was resliced k elements further
Resliced(res, k) == [res EXCEPT !.off = res.off + k]

\* a handed-out slice after "append(c.messages[:i], c.messages[i+1:]...)"
\* moved the elements behind index i of live one place down, in place
\* (i is 1-based)
ShiftedDown(res, live, i) ==
    IF ~res.shared THEN res
    ELSE [res EXCEPT !.items =
            [a \in 1..Len(res.items) |->
                IF (a - res.off) \in i..(Len(live) - 1)
                THEN live[a - res.off + 1]
                ELSE res.items[a]]]

\* a handed-out slice after append wrote m behind live in place
WrittenBehind(res, live, m) ==
    IF res.shared /\ (Len(live) + 1 + res.off) \in 1..Len(res.items)
    THEN [res EXCEPT !.items[Len(live) + 1 + res.off] = m]
    ELSE res

\* the goroutines as they are outside of any call, holding no slice
ConcIdle ==
    /\ mutex = FreeMutex
    /\ callers = [p \in Callers |-> [pc |-> "idle", arg |-> "", result |-> NoSlice]]
    /\ committed = <<>>

\* ---------------------------------------------------------------------
\* Processor: bytes to samples
\* ---------------------------------------------------------------------
\* A sample is the 32 bits that float32FromBytes reinterprets as a float32,
\* kept as two 16-bit halves (lo holds bits 0..15, hi bits 16..31).

\* longest chunk a call is given, in bytes
MaxChunkBytes == 5

\* values a byte of the stream takes
ByteVals == {1, 128, 255}

\* mutant: the four bytes are taken most significant first
float32FromBytes_BigEndian(b) ==
    [lo |-> b[4] + b[3] * 256, hi |-> b[2] + b[1] * 256]

\* "bits := uint32(b[0]) | uint32(b[1])<<8 | uint32(b[2])<<16 | uint32(b[3])<<24"
float32FromBytes(b) ==
    [lo |-> b[1] + b[2] * 256, hi |-> b[3] + b[4] * 256]

\* the loop "for i := 0; i < len(data); i += 4" of ProcessBytes, from i on
RECURSIVE ProcessBytesFrom(_, _)
ProcessBytesFrom(data, i) ==
    IF i >= Len(data) THEN <<>>
    ELSE (IF i + 4 <= Len(data)
          THEN <<float32FromBytes(SubSeq(data, i + 1, i + 4))>>
          ELSE <<>>) \o ProcessBytesFrom(data, i + 4)

\* the samples ProcessBytes(data) returns
ProcessBytesData(data) == ProcessBytesFrom(data, 0)

\* no call of ProcessBytes yet
BytesIdle ==
    /\ bytesIn = <<>>
    /\ samplesOut = <<>>
    /\ prevRest = 0

\* ---------------------------------------------------------------------
\* Wake-word buffer with its contents
\* ---------------------------------------------------------------------
\* Here the buffer is the sequence of its samples, a sample being named by
\* its position in the stream (1 for the first sample read).

\* samples read in a run
MaxWakeSamples == 30

\* "copy(sp.wakeWordBuffer, sp.wakeWordBuffer[sampleRate/4:])"
CopyDown(buf, q) ==
    [i \in 1..Len(buf) |-> IF i + q <= Len(buf) THEN buf[i + q] ELSE buf[i]]

\* mutant: the newest samples are cut off instead of the oldest
WakeEvict_Newest(buf) == SubSeq(buf, 1, Len(buf) - wakeWordEvict)

\* the eviction: copy down, then cut the slice by sampleRate/4
WakeEvict(buf) == SubSeq(CopyDown(buf, wakeWordEvict), 1, Len(buf) - wakeWordEvict)

\* the buffer after one sample is appended (lines 208-215)
WakeAppendData(buf, sample) ==
    IF Len(buf) + 1 > wakeWordCapacity THEN WakeEvict(Append(buf, sample))
    ELSE Append(buf, sample)

NoWakeEvent == [submitted |-> FALSE, detected |-> FALSE, evicted |-> FALSE]

\* no sample read yet
WakeIdle ==
    /\ wakeWordBuffer = <<>>
    /\ wakeStreamPos = 0
    /\ sinceSubmit = 0
    /\ wakeEv = NoWakeEvent

\* ---------------------------------------------------------------------
\* RMS level of arbitrary amplitudes
\* ---------------------------------------------------------------------
\* amplitudes fed to the detector, in thousandths, from digital silence to
\* full scale; all even, so that the mean of two squares is exact
Amplitudes == {0, 2, 10, 20, 50, 100, 160, 200, 300, 500, 700, 1000}

\* the detector as Initialize leaves it: an empty window, no level yet
LevelIdle ==
    /\ levelWindow = <<>>
    /\ levelOut = 0

\* ---------------------------------------------------------------------
\* Handed-off utterances: transcribeAndOutput and processWithAI
\* ---------------------------------------------------------------------
\* texts the Recognizer returns, as sequences of characters: nothing, blanks
\* only, short and long words, words between blanks, words with accents
Texts == { <<>>,
           <<" ">>,
           <<"o", "k">>,
           <<"o", "u", "i">>,
           <<" ", "o", "u", "i", " ">>,
           <<"n", "o", "n", "!">>,
           <<" ", "n", "o", "n", "!", " ">>,
           <<"e-acute", "t", "e-acute">> }

\* bytes of a character in UTF-8 (Go strings are UTF-8, len counts bytes);
\* "e-acute" stands for the one character U+00E9
Utf8Len(ch) == IF ch = "e-acute" THEN 2 ELSE 1

\* len(text)
RECURSIVE StringLen(_)
StringLen(text) ==
    IF text = <<>> THEN 0 ELSE Utf8Len(Head(text)) + StringLen(Tail(text))

RECURSIVE TrimLeft(_)
TrimLeft(text) ==
    IF text # <<>> /\ Head(text) = " " THEN TrimLeft(Tail(text)) ELSE text

RECURSIVE TrimRight(_)
TrimRight(text) ==
    IF text # <<>> /\ text[Len(text)] = " "
    THEN TrimRight(SubSeq(text, 1, Len(text) - 1))
    ELSE text

\* strings.TrimSpace(text)
TrimSpace(text) == TrimRight(TrimLeft(text))

\* what Transcribe returns for an utterance
Transcriptions ==
    {[err |-> TRUE, text |-> <<>>]} \cup {[err |-> FALSE, text |-> t] : t \in Texts}

\* what Chat returns: a transport error, a response with its Error field
\* set, a response with no content, a reply
ChatOutcomes ==
    { [err |-> TRUE,  error |-> "",  message |-> Message("", <<>>)],
      [err |-> FALSE, error |-> "e", message |-> Message("assistant", <<"r">>)],
      [err |-> FALSE, error |-> "",  message |-> Message("assistant", <<>>)],
      [err |-> FALSE, error |-> "",  message |-> Message("assistant", <<"r">>)] }

\* maxHistory values given on the command line
AiHistories == {1, 2, 3}
\* system prompts given on the command line
AiPrompts == {"", "p"}

\* "if sp.aiEnabled && len(cleanText) > 3"
SendToAI(enabled, cleanText) == enabled /\ StringLen(cleanText) > 3

\* the conversation when Chat is called: the user message is added first
HistoryAtChat(msgs, text, max) == AfterAddMessage(msgs, Message("user", text), max)

\* whether processWithAI goes on to add the response
ReplyAccepted(response) ==
    /\ ~response.err
    /\ response.error = ""
    /\ response.message.content # <<>>

\* the conversation when processWithAI returns
HistoryAfterChat(msgs, text, response, max) ==
    IF ReplyAccepted(response)
    THEN AfterAddMessage(HistoryAtChat(msgs, text, max), response.message, max)
    ELSE HistoryAtChat(msgs, text, max)

NoHandOff ==
    [ op |-> "none", transcription |-> [err |-> FALSE, text |-> <<>>],
      printed |-> FALSE, chatCalled |-> FALSE, request |-> <<>>,
      response |-> [err |-> FALSE, error |-> "", message |-> Message("", <<>>)],
      replied |-> FALSE ]

\* no AI service, no conversation, no utterance yet
AiIdle ==
    /\ aiProbe = "off"
    /\ aiEnabled = FALSE
    /\ aiMaxHistory = defaultMaxHistory
    /\ aiHistory = <<>>
    /\ aiEv = NoHandOff

\* ---------------------------------------------------------------------
\* An RMSDetector on its own
\* ---------------------------------------------------------------------
\* samples a detector counts in a phrase before it is reset
MaxPhraseSamples == 3

NewRMSDetector ==
    [ rmsBuffer |-> <<>>,
      silenceSamples |-> 0,
      speechSamples |-> 0,
      isSpeaking |-> FALSE,
      noiseFloorSamplesCount |-> 0,
      noiseFloorSum |-> 0,
      adaptiveThreshold |-> 0,
      calibrating |-> TRUE ]

\* Initialize on a detector in any state: a new window, the threshold of the
\* configuration, calibrating set; the other fields are not written
Initialize(r) ==
    [r EXCEPT !.rmsBuffer = <<>>,
              !.adaptiveThreshold = silenceThreshold,
              !.calibrating = TRUE]

IsCalibrated(r) == ~r.calibrating

NoDetectorEvent == [op |-> "NewRMSDetector", decided |-> FALSE, calibrated |-> FALSE]

\* a detector just constructed and initialized
DetectorIdle ==
    /\ rmsDetector = Initialize(NewRMSDetector)
    /\ sinceInitialize = 0
    /\ detectorEv = NoDetectorEvent

\* ---------------------------------------------------------------------
\* Shutdown: the sample loop, the deferred Close and the signal goroutine
\* ---------------------------------------------------------------------
\* Transcribe calls in a run
MaxTranscribeCalls == 3

\* where a goroutine is in SpeechProcessor.Close: before audioCapture.Stop(),
\* before the test of Service.Close, inside s.model.Close(), before
\* "s.isLoaded = false"
ClosePcs == {"stop", "check", "modelClose", "store"}

\* what Transcribe and Close make of a model already closed is not defined
\* by the code (the model is a C object): the call returns or the process
\* crashes
Outcomes(closedUnder) == IF closedUnder THEN {"ok", "crash"} ELSE {"ok"}

\* Initialize has loaded the model, the loop runs, no signal yet
ShutdownIdle ==
    /\ process = "running"
    /\ mainPc = "loop"
    /\ signalPc = "wait"
    /\ isLoaded = TRUE
    /\ modelClosed = 0
    /\ transcribeCalls = 0
    /\ shutdownEv = [op |-> "init", by |-> "", outcome |-> "ok"]

\* everything outside of the engine and of the Conversation at rest
AuxIdle ==
    /\ ConcIdle /\ BytesIdle /\ WakeIdle /\ LevelIdle /\ AiIdle /\ DetectorIdle
    /\ ShutdownIdle

\* ---------------------------------------------------------------------
\* SpeechProcessor
\* ---------------------------------------------------------------------
NoEvent ==
    [ op |-> "init", piped |-> FALSE, above |-> FALSE, completed |-> FALSE,
      wakeCall |-> FALSE, detected |-> FALSE, handed |-> 0, handedSpeech |-> 0,
      forced |-> FALSE, emitted |-> FALSE, calib |-> FALSE, returned |-> FALSE,
      heard |-> "none", result |-> "none" ]

\* NewSpeechProcessor and Initialize
Init ==
    /\ pc = "read"
    /\ remaining = 0
    /\ wakeWordEnabled \in BOOLEAN
    /\ listeningActive = ~wakeWordEnabled
    /\ wakeWordBufferLen = 0
    /\ audioBufferLen = 0
    /\ vad = VadInitialize
    /\ timers = <<>>
    /\ ev = NoEvent
    /\ samplesRead = 0
    /\ audioStreamOpen = TRUE
    /\ whisperOpen = TRUE
    /\ ConvIdle
    /\ AuxIdle

\* mutant: one sample per byte
ProcessBytes_PerByte(n) == n

\* ProcessBytes: one sample per complete group of 4 bytes
ProcessBytes(n) == n \div 4

\* stream.Read returns n bytes and no error
ReadChunk ==
    /\ pc = "read"
    /\ \E n \in 1..readChunkSize :
         /\ remaining' = ProcessBytes(n)
         /\ pc' = IF ProcessBytes(n) > 0 THEN "samples" ELSE "ceiling"
    /\ ev' = [NoEvent EXCEPT !.op = "read"]
    /\ UNCHANGED <<wakeWordEnabled, listeningActive, wakeWordBufferLen,
                   audioBufferLen, vad, timers, samplesRead, audioStreamOpen,
                   whisperOpen>>
    /\ UNCHANGED <<convVars, auxVars>>

\* mutant: the read error leaves through os.Exit, no deferred Close runs
ReadError_NoDefer ==
    /\ pc = "read"
    /\ pc' = "done"
    /\ timers' = <<>>
    /\ ev' = [NoEvent EXCEPT !.op = "error"]
    /\ UNCHANGED <<remaining, wakeWordEnabled, listeningActive, wakeWordBufferLen,
                   audioBufferLen, vad, samplesRead, audioStreamOpen, whisperOpen>>
    /\ UNCHANGED <<convVars, auxVars>>

\* stream.Read returns an error: the loop breaks, ProcessStream returns
\* through "defer stream.Close()", runApp returns through
\* "defer processor.Close()", and the process ends, which ends the goroutines
\* still asleep
ReadError ==
    /\ pc = "read"
    /\ pc' = "done"
    /\ timers' = <<>>
    /\ audioStreamOpen' = FALSE
    /\ whisperOpen' = FALSE
    /\ ev' = [NoEvent EXCEPT !.op = "error"]
    /\ UNCHANGED <<remaining, wakeWordEnabled, listeningActive, wakeWordBufferLen,
                   audioBufferLen, vad, samplesRead>>
    /\ UNCHANGED <<convVars, auxVars>>

\* the wake-word buffer after one sample is appended (lines 208-215)
WakeAppend(len) ==
    IF len + 1 > wakeWordCapacity THEN len + 1 - wakeWordEvict ELSE len + 1

\* "check for wake word every 500ms"
WakeCheckDue(len) == len % wakeWordCheckEvery = 0

\* mutant: a Transcribe error counts as a detection
detectWakeWord_ErrorDetects(len, heard) ==
    IF ~wakeWordEnabled \/ len < sampleRate \div 2 THEN FALSE
    ELSE heard \in {"match", "error"}

\* detectWakeWord, given what the Recognizer hears in the buffer
detectWakeWord(len, heard) ==
    IF ~wakeWordEnabled \/ len < sampleRate \div 2 THEN FALSE
    ELSE heard = "match"

\* whether detectWakeWord reaches its Transcribe call
WakeTranscribes(len) == wakeWordEnabled /\ len >= sampleRate \div 2

\* mutant: the "continue" of the gate is missing
GateOpen_Always(enabled, active) == TRUE

\* mutant: with the wake word enabled the gate never opens
GateOpen_Closed(enabled, active) == ~enabled

\* "if not actively listening, skip regular processing"
GateOpen(enabled, active) == ~enabled \/ active

\* mutant: the first sample below the threshold ends the phrase
PhraseComplete_NoHysteresis(r) == r.isSpeaking /\ r.silenceSamples >= 1

\* mutant: the phrase ends one sample late
PhraseComplete_Late(r) == r.isSpeaking /\ r.silenceSamples > silenceThresholdSamples

\* the phrase is complete: silence detected after speech
PhraseComplete(r) == r.isSpeaking /\ r.silenceSamples >= silenceThresholdSamples

\* the completed phrase is long enough to transcribe
LongEnough(len) == len >= minSpeechSamples

\* what the Recognizer may answer when it is called, "none" when it is not
Answers(called, answers) == IF called THEN answers ELSE {"none"}

\* the body of "for _, sample := range samples" for one sample
ProcessOneSample ==
    /\ pc = "samples"
    /\ remaining > 0
    /\ \E sample \in Samples :
       \E wb1 \in {IF wakeWordEnabled THEN WakeAppend(wakeWordBufferLen)
                   ELSE wakeWordBufferLen} :
       \E wakeCall \in {wakeWordEnabled /\ WakeCheckDue(wb1) /\ WakeTranscribes(wb1)} :
       \E heard \in Answers(wakeCall, Heard) :
       \E det \in {wakeWordEnabled /\ WakeCheckDue(wb1) /\ detectWakeWord(wb1, heard)} :
       \E piped \in {GateOpen(wakeWordEnabled, IF det THEN TRUE ELSE listeningActive)} :
       \E v1 \in {IF piped THEN ProcessSample(vad, sample) ELSE vad} :
       \E complete \in {piped /\ PhraseComplete(v1)} :
       \E hand \in {complete /\ LongEnough(audioBufferLen + 1)} :
       \E result \in Answers(hand, Results) :
         /\ det => Len(timers) < MaxTimers
         /\ wakeWordBufferLen' = IF det THEN 0 ELSE wb1
         /\ listeningActive' = IF det THEN TRUE ELSE listeningActive
         /\ timers' = IF det THEN Append(timers, 0) ELSE timers
         /\ audioBufferLen' = IF ~piped THEN audioBufferLen
                              ELSE IF complete THEN 0 ELSE audioBufferLen + 1
         /\ vad' = IF complete THEN Reset(v1) ELSE v1
         /\ ev' = [ op |-> "sample",
                    piped |-> piped,
                    above |-> piped /\ AboveThreshold(vad, sample),
                    completed |-> complete,
                    wakeCall |-> wakeCall,
                    detected |-> det,
                    handed |-> IF hand THEN audioBufferLen + 1 ELSE 0,
                    handedSpeech |-> IF hand THEN v1.speechSamples ELSE 0,
                    forced |-> FALSE,
                    emitted |-> result = "text",
                    calib |-> piped /\ InCalibration(vad),
                    returned |-> piped /\ ProcessSampleReturns(vad, sample),
                    heard |-> heard,
                    result |-> result ]
    /\ remaining' = remaining - 1
    /\ pc' = IF remaining = 1 THEN "ceiling" ELSE "samples"
    /\ samplesRead' = IF samplesRead < noiseFloorSamples THEN samplesRead + 1
                      ELSE samplesRead
    /\ UNCHANGED <<wakeWordEnabled, audioStreamOpen, whisperOpen>>
    /\ UNCHANGED <<convVars, auxVars>>

\* "prevent buffer overflow", after the samples of the chunk (lines 253-258)
\* mutant: the ceiling test is off by one
CeilingReached_OffByOne(len) == len > maxBufferSize

CeilingReached(len) == len >= maxBufferSize

CeilingCheck ==
    /\ pc = "ceiling"
    /\ \E flush \in {CeilingReached(audioBufferLen)} :
       \E result \in Answers(flush, Results) :
         /\ audioBufferLen' = IF flush THEN 0 ELSE audioBufferLen
         /\ vad' = IF flush THEN Reset(vad) ELSE vad
         /\ ev' = [NoEvent EXCEPT
                     !.op = "ceiling",
                     !.handed = IF flush THEN audioBufferLen ELSE 0,
                     !.handedSpeech = IF flush THEN vad.speechSamples ELSE 0,
                     !.forced = flush,
                     !.emitted = result = "text",
                     !.result = result]
    /\ pc' = "read"
    /\ UNCHANGED <<remaining, wakeWordEnabled, listeningActive, wakeWordBufferLen,
                   timers, samplesRead, audioStreamOpen, whisperOpen>>
    /\ UNCHANGED <<convVars, auxVars>>

\* ---------------------------------------------------------------------
\* Timer goroutines: startListeningTimeout
\* ---------------------------------------------------------------------
\* time passes for every goroutine still in time.Sleep
Tick ==
    /\ \E i \in 1..Len(timers) : timers[i] < listeningTimeout
    /\ timers' = [i \in 1..Len(timers) |->
                    IF timers[i] < listeningTimeout THEN timers[i] + 1
                    ELSE timers[i]]
    /\ ev' = [NoEvent EXCEPT !.op = "tick"]
    /\ UNCHANGED <<pc, remaining, wakeWordEnabled, listeningActive,
                   wakeWordBufferLen, audioBufferLen, vad, samplesRead,
                   audioStreamOpen, whisperOpen>>
    /\ UNCHANGED <<convVars, auxVars>>

\* the goroutine's sleep is over
SleepOver(t) == t >= listeningTimeout

\* mutant: the test of wakeWordEnabled is inverted
TimeoutWrite_Inverted(enabled, active) == IF ~enabled THEN FALSE ELSE active

\* what the goroutine writes to sp.listeningActive after its sleep
TimeoutWrite(enabled, active) == IF enabled THEN FALSE ELSE active

RemoveAt(s, i) == SubSeq(s, 1, i - 1) \o SubSeq(s, i + 1, Len(s))

\* mutant: the expiry discards the phrase in progress
TimerExpire_Discards ==
    /\ \E i \in 1..Len(timers) :
         /\ SleepOver(timers[i])
         /\ timers' = RemoveAt(timers, i)
    /\ listeningActive' = TimeoutWrite(wakeWordEnabled, listeningActive)
    /\ audioBufferLen' = 0
    /\ vad' = Reset(vad)
    /\ ev' = [NoEvent EXCEPT !.op = "expire"]
    /\ UNCHANGED <<pc, remaining, wakeWordEnabled, wakeWordBufferLen,
                   samplesRead, audioStreamOpen, whisperOpen>>
    /\ UNCHANGED <<convVars, auxVars>>

TimerExpire ==
    /\ \E i \in 1..Len(timers) :
         /\ SleepOver(timers[i])
         /\ timers' = RemoveAt(timers, i)
    /\ listeningActive' = TimeoutWrite(wakeWordEnabled, listeningActive)
    /\ ev' = [NoEvent EXCEPT !.op = "expire"]
    /\ UNCHANGED <<pc, remaining, wakeWordEnabled, wakeWordBufferLen,
                   audioBufferLen, vad, samplesRead, audioStreamOpen, whisperOpen>>
    /\ UNCHANGED <<convVars, auxVars>>

\* ---------------------------------------------------------------------
\* Shutdown goroutine of runApp
\* ---------------------------------------------------------------------
\* a signal arrives: the goroutine runs processor.Close(), whose
\* audioCapture.Stop() does nothing and whose whisperService.Close() closes
\* the model, then os.Exit(0), which runs no deferred call
Signal ==
    /\ pc # "done"
    /\ pc' = "done"
    /\ timers' = <<>>
    /\ whisperOpen' = FALSE
    /\ ev' = [NoEvent EXCEPT !.op = "signal"]
    /\ UNCHANGED <<remaining, wakeWordEnabled, listeningActive, wakeWordBufferLen,
                   audioBufferLen, vad, samplesRead, audioStreamOpen>>
    /\ UNCHANGED <<convVars, auxVars>>

Next ==
    \/ ReadChunk
    \/ ReadError
    \/ Signal
    \/ ProcessOneSample
    \/ CeilingCheck
    \/ Tick
    \/ TimerExpire

Spec == Init /\ [][Next]_vars

\* the Go scheduler runs a goroutine whose sleep is over, and time passes
FairSpec == Spec /\ WF_vars(Tick) /\ WF_vars(TimerExpire)

TypeOK ==
    /\ pc \in {"read", "samples", "ceiling", "done"}
    /\ remaining \in 0..ProcessBytes(readChunkSize)
    /\ wakeWordEnabled \in BOOLEAN
    /\ listeningActive \in BOOLEAN
    /\ wakeWordBufferLen \in 0..wakeWordCapacity
    /\ audioBufferLen \in Nat
    /\ Len(timers) <= MaxTimers

\* ---------------------------------------------------------------------
\* Conversation: the methods as steps
\* ---------------------------------------------------------------------
\* the engine before ProcessStream is started
EngineIdle ==
    /\ pc = "done"
    /\ remaining = 0
    /\ wakeWordEnabled = FALSE
    /\ listeningActive = TRUE
    /\ wakeWordBufferLen = 0
    /\ audioBufferLen = 0
    /\ vad = VadInitialize
    /\ timers = <<>>
    /\ ev = NoEvent
    /\ samplesRead = 0
    /\ audioStreamOpen = FALSE
    /\ whisperOpen = TRUE

\* NewConversation(n)
ConvInit ==
    /\ EngineIdle
    /\ AuxIdle
    /\ \E n \in 0..MaxConfigured : maxHistory = NewConversation(n)
    /\ messages = <<>>
    /\ systemPrompt = ""
    /\ added = <<>>
    /\ addOnly = TRUE
    /\ lastCall = NoCall

\* AddMessage(m); the content of the n-th message added is the numeral n
AddMessage ==
    /\ Len(added) < MaxAdds
    /\ \E role \in Roles :
       \E m \in {Message(role, ToString(Len(added) + 1))} :
         /\ messages' = AfterAddMessage(messages, m, maxHistory)
         /\ added' = Append(added, m)
         /\ lastCall' = [op |-> "AddMessage", arg |-> m.content]
    /\ UNCHANGED <<systemPrompt, maxHistory, addOnly>>
    /\ UNCHANGED <<engineVars, auxVars>>

\* SetSystemPrompt(p)
SetSystemPrompt ==
    /\ \E p \in Prompts :
         /\ systemPrompt' = p
         /\ messages' = AfterSetSystemPrompt(messages, p)
         /\ lastCall' = [op |-> "SetSystemPrompt", arg |-> p]
    /\ addOnly' = FALSE
    /\ UNCHANGED <<maxHistory, added>>
    /\ UNCHANGED <<engineVars, auxVars>>

\* ClearHistory()
ClearHistory ==
    /\ messages' = AfterClearHistory(messages)
    /\ lastCall' = [op |-> "ClearHistory", arg |-> ""]
    /\ addOnly' = FALSE
    /\ UNCHANGED <<systemPrompt, maxHistory, added>>
    /\ UNCHANGED <<engineVars, auxVars>>

ConvNext ==
    \/ AddMessage
    \/ SetSystemPrompt
    \/ ClearHistory

ConvSpec == ConvInit /\ [][ConvNext]_vars

ConvTypeOK ==
    /\ maxHistory \in 1..defaultMaxHistory
    /\ systemPrompt \in Prompts
    /\ Len(added) <= MaxAdds
    /\ \A i \in 1..Len(messages) : messages[i].role \in Roles
    /\ addOnly \in BOOLEAN

\* ---------------------------------------------------------------------
\* Conversation: the methods of concurrent callers as steps
\* ---------------------------------------------------------------------
ConcInit ==
    /\ EngineIdle
    /\ AuxIdle
    /\ maxHistory \in ConcHistories
    /\ messages = <<>>
    /\ systemPrompt = ""
    /\ added = <<>>
    /\ addOnly = TRUE
    /\ lastCall = NoCall

At(p, where) == [callers EXCEPT ![p].pc = where]

\* p calls a mutating method and gets c.mutex.Lock()
CallLock(p) ==
    /\ callers[p].pc = "idle"
    /\ MayLock(mutex)
    /\ mutex' = [mutex EXCEPT !.writer = p]
    /\ \/ /\ Len(added) < MaxConcAdds
          /\ \E role \in ConcRoles :
               /\ callers' = [callers EXCEPT ![p].pc = "add_append", ![p].arg = role]
          /\ UNCHANGED added
       \/ \E prompt \in ConcPrompts :
            /\ callers' = [callers EXCEPT ![p].pc = "set_store", ![p].arg = prompt]
            /\ UNCHANGED added
       \/ /\ callers' = [callers EXCEPT ![p].pc = "clear", ![p].arg = ""]
          /\ UNCHANGED added
    /\ UNCHANGED <<messages, systemPrompt, maxHistory, addOnly, lastCall, committed>>
    /\ UNCHANGED concOthers

\* AddMessage: "c.messages = append(c.messages, message)"; append writes in
\* place when the backing array has room and moves to a new array otherwise
AddAppend(p) ==
    /\ callers[p].pc = "add_append"
    /\ \E m \in {Message(callers[p].arg, ToString(Len(added) + 1))} :
       \E inPlace \in BOOLEAN :
         /\ messages' = Append(messages, m)
         /\ added' = Append(added, m)
         /\ callers' = [q \in Callers |->
                          [callers[q] EXCEPT
                             !.pc = IF q = p THEN "add_trim" ELSE @,
                             !.result = IF inPlace
                                        THEN WrittenBehind(@, messages, m)
                                        ELSE Detached(@)]]
    /\ UNCHANGED <<systemPrompt, maxHistory, addOnly, lastCall, mutex, committed>>
    /\ UNCHANGED concOthers

\* AddMessage: the branch "if len(c.messages) > c.maxHistory"; with a system
\* message the history is rebuilt in a new array, without one it is resliced
AddTrim(p) ==
    /\ callers[p].pc = "add_trim"
    /\ messages' = IF Len(messages) > maxHistory
                   THEN TrimHistory(messages, maxHistory) ELSE messages
    /\ callers' = [q \in Callers |->
                     [callers[q] EXCEPT
                        !.pc = IF q = p THEN "unlock" ELSE @,
                        !.result = IF Len(messages) <= maxHistory THEN @
                                   ELSE IF FirstSystem(messages) > 0 THEN Detached(@)
                                   ELSE Resliced(@, Len(messages) - maxHistory)]]
    /\ UNCHANGED <<systemPrompt, maxHistory, added, addOnly, lastCall, mutex, committed>>
    /\ UNCHANGED concOthers

\* SetSystemPrompt: "c.systemPrompt = prompt"
SetStore(p) ==
    /\ callers[p].pc = "set_store"
    /\ systemPrompt' = callers[p].arg
    /\ callers' = At(p, "set_remove")
    /\ UNCHANGED <<messages, maxHistory, added, addOnly, lastCall, mutex, committed>>
    /\ UNCHANGED concOthers

\* SetSystemPrompt: "remove existing system message if any", in place
SetRemove(p) ==
    /\ callers[p].pc = "set_remove"
    /\ messages' = AfterSetSystemPrompt(messages, "")
    /\ callers' = [q \in Callers |->
                     [callers[q] EXCEPT
                        !.pc = IF q = p THEN "set_prepend" ELSE @,
                        !.result = IF FirstSystem(messages) > 0
                                   THEN ShiftedDown(@, messages, FirstSystem(messages))
                                   ELSE @]]
    /\ UNCHANGED <<systemPrompt, maxHistory, added, addOnly, lastCall, mutex, committed>>
    /\ UNCHANGED concOthers

\* SetSystemPrompt: "add new system message at the beginning", in a new array
SetPrepend(p) ==
    /\ callers[p].pc = "set_prepend"
    /\ messages' = IF callers[p].arg # ""
                   THEN <<Message("system", callers[p].arg)>> \o messages
                   ELSE messages
    /\ callers' = [q \in Callers |->
                     [callers[q] EXCEPT
                        !.pc = IF q = p THEN "unlock" ELSE @,
                        !.result = IF callers[p].arg # "" THEN Detached(@) ELSE @]]
    /\ UNCHANGED <<systemPrompt, maxHistory, added, addOnly, lastCall, mutex, committed>>
    /\ UNCHANGED concOthers

\* ClearHistory: the history becomes a new slice
ClearStep(p) ==
    /\ callers[p].pc = "clear"
    /\ messages' = AfterClearHistory(messages)
    /\ callers' = [q \in Callers |->
                     [callers[q] EXCEPT
                        !.pc = IF q = p THEN "unlock" ELSE @,
                        !.result = Detached(@)]]
    /\ UNCHANGED <<systemPrompt, maxHistory, added, addOnly, lastCall, mutex, committed>>
    /\ UNCHANGED concOthers

\* "defer c.mutex.Unlock()": the mutating method returns
Unlock(p) ==
    /\ callers[p].pc = "unlock"
    /\ mutex' = [mutex EXCEPT !.writer = ""]
    /\ committed' = messages
    /\ callers' = At(p, "idle")
    /\ UNCHANGED <<messages, systemPrompt, maxHistory, added, addOnly, lastCall>>
    /\ UNCHANGED concOthers

\* p calls GetMessages and gets c.mutex.RLock()
CallRLock(p) ==
    /\ callers[p].pc = "idle"
    /\ MayRLock(mutex)
    /\ mutex' = [mutex EXCEPT !.readers = @ \cup {p}]
    /\ callers' = At(p, "get_copy")
    /\ UNCHANGED <<messages, systemPrompt, maxHistory, added, addOnly, lastCall, committed>>
    /\ UNCHANGED concOthers

\* GetMessages: make and copy
GetCopy(p) ==
    /\ callers[p].pc = "get_copy"
    /\ callers' = [callers EXCEPT ![p].pc = "get_return",
                                  ![p].result = GetMessagesResult(messages)]
    /\ UNCHANGED <<messages, systemPrompt, maxHistory, added, addOnly, lastCall,
                   mutex, committed>>
    /\ UNCHANGED concOthers

\* "defer c.mutex.RUnlock()": GetMessages returns
GetReturn(p) ==
    /\ callers[p].pc = "get_return"
    /\ mutex' = [mutex EXCEPT !.readers = @ \ {p}]
    /\ callers' = At(p, "idle")
    /\ UNCHANGED <<messages, systemPrompt, maxHistory, added, addOnly, lastCall, committed>>
    /\ UNCHANGED concOthers

ConcNext ==
    \E p \in Callers :
        \/ CallLock(p)
        \/ AddAppend(p)
        \/ AddTrim(p)
        \/ SetStore(p)
        \/ SetRemove(p)
        \/ SetPrepend(p)
        \/ ClearStep(p)
        \/ Unlock(p)
        \/ CallRLock(p)
        \/ GetCopy(p)
        \/ GetReturn(p)

ConcSpec == ConcInit /\ [][ConcNext]_vars

\* ---------------------------------------------------------------------
\* Processor: calls of ProcessBytes
\* ---------------------------------------------------------------------
RECURSIVE ByteSeqs(_)
ByteSeqs(n) ==
    IF n = 0 THEN {<<>>}
    ELSE ByteSeqs(n - 1)
           \cup {Append(s, b) : s \in {t \in ByteSeqs(n - 1) : Len(t) = n - 1},
                                b \in ByteVals}

BytesInit ==
    /\ EngineIdle
    /\ ConvIdle
    /\ AuxIdle

\* samples := sp.audioProcessor.ProcessBytes(chunk[:n])
CallProcessBytes ==
    /\ \E data \in ByteSeqs(MaxChunkBytes) :
         /\ bytesIn' = data
         /\ samplesOut' = ProcessBytesData(data)
    /\ prevRest' = Len(bytesIn) % 4
    /\ UNCHANGED bytesOthers

BytesNext == CallProcessBytes

BytesSpec == BytesInit /\ [][BytesNext]_vars

\* ---------------------------------------------------------------------
\* Wake-word buffer with its contents: the samples as steps
\* ---------------------------------------------------------------------
WakeInit ==
    /\ EngineIdle
    /\ ConvIdle
    /\ AuxIdle

\* the block "if sp.wakeWordEnabled" of the sample loop (lines 207-228) for
\* one sample, with the wake word enabled; what follows the block is in
\* ProcessOneSample
WakeSample ==
    /\ wakeStreamPos < MaxWakeSamples
    /\ \E buf \in {WakeAppendData(wakeWordBuffer, wakeStreamPos + 1)} :
       \E submit \in {WakeCheckDue(Len(buf)) /\ Len(buf) >= sampleRate \div 2} :
       \E heard \in Answers(submit, Heard) :
       \E det \in {submit /\ heard = "match"} :
         /\ wakeWordBuffer' = IF det THEN <<>> ELSE buf
         /\ sinceSubmit' = IF submit THEN 0 ELSE sinceSubmit + 1
         /\ wakeEv' = [submitted |-> submit, detected |-> det,
                       evicted |-> Len(wakeWordBuffer) + 1 > wakeWordCapacity]
    /\ wakeStreamPos' = wakeStreamPos + 1
    /\ UNCHANGED wakeOthers

WakeNext == WakeSample

WakeSpec == WakeInit /\ [][WakeNext]_vars

\* ---------------------------------------------------------------------
\* RMS level of arbitrary amplitudes: the samples as steps
\* ---------------------------------------------------------------------
LevelInit ==
    /\ EngineIdle
    /\ ConvIdle
    /\ AuxIdle

\* the first lines of RMSDetector.ProcessSample: the square of the sample
\* enters the sliding window and calculateRMS is called on the window
LevelSample ==
    /\ \E sample \in Amplitudes :
         /\ levelWindow' = PushWindow(levelWindow, sample)
         /\ levelOut' = calculateRMS(PushWindow(levelWindow, sample))
    /\ UNCHANGED levelOthers

LevelNext == LevelSample

LevelSpec == LevelInit /\ [][LevelNext]_vars

\* ---------------------------------------------------------------------
\* Handed-off utterances: each transcribeAndOutput call as a step
\* ---------------------------------------------------------------------
\* runApp: the AI service and the conversation exist only when the service
\* is configured and its probe succeeds; the system prompt is set then
AiInit ==
    /\ EngineIdle
    /\ ConvIdle
    /\ ConcIdle /\ BytesIdle /\ WakeIdle /\ LevelIdle /\ DetectorIdle /\ ShutdownIdle
    /\ aiProbe \in {"off", "failed", "ok"}
    /\ aiEnabled = (aiProbe = "ok")
    /\ aiMaxHistory \in {NewConversation(n) : n \in AiHistories}
    /\ \E p \in AiPrompts :
         aiHistory = IF aiProbe = "ok" THEN AfterSetSystemPrompt(<<>>, p) ELSE <<>>
    /\ aiEv = NoHandOff

\* transcribeAndOutput on one utterance, processWithAI included
TranscribeAndOutput ==
    /\ \E tr \in Transcriptions :
       \E response \in ChatOutcomes :
       \E cleanText \in {TrimSpace(tr.text)} :
       \E printed \in {~tr.err /\ tr.text # <<>>} :
       \E send \in {printed /\ SendToAI(aiEnabled, cleanText)} :
         /\ aiHistory' = IF send
                          THEN HistoryAfterChat(aiHistory, cleanText, response, aiMaxHistory)
                          ELSE aiHistory
         /\ aiEv' = [ op |-> "handoff",
                      transcription |-> tr,
                      printed |-> printed,
                      chatCalled |-> send,
                      request |-> IF send
                                  THEN HistoryAtChat(aiHistory, cleanText, aiMaxHistory)
                                  ELSE <<>>,
                      response |-> IF send THEN response ELSE NoHandOff.response,
                      replied |-> send /\ ReplyAccepted(response) ]
    /\ UNCHANGED <<aiProbe, aiEnabled, aiMaxHistory>>
    /\ UNCHANGED aiOthers

AiNext == TranscribeAndOutput

AiSpec == AiInit /\ [][AiNext]_vars

\* ---------------------------------------------------------------------
\* An RMSDetector on its own: each method call as a step
\* ---------------------------------------------------------------------
DetectorInit ==
    /\ EngineIdle
    /\ ConvIdle
    /\ AuxIdle

DetectorInitialize ==
    /\ rmsDetector' = Initialize(rmsDetector)
    /\ sinceInitialize' = 0
    /\ detectorEv' = [op |-> "Initialize", decided |-> FALSE,
                      calibrated |-> IsCalibrated(rmsDetector)]
    /\ UNCHANGED detectorOthers

\* ProcessSample; decided tells that the call went through the decision
\* branch, calibrated what IsCalibrated() answered before the call
DetectorProcessSample ==
    /\ rmsDetector.speechSamples + rmsDetector.silenceSamples < MaxPhraseSamples
    /\ \E sample \in Samples :
         rmsDetector' = ProcessSample(rmsDetector, sample)
    /\ sinceInitialize' = IF sinceInitialize < noiseFloorSamples
                          THEN sinceInitialize + 1 ELSE sinceInitialize
    /\ detectorEv' = [op |-> "ProcessSample", decided |-> ~InCalibration(rmsDetector),
                      calibrated |-> IsCalibrated(rmsDetector)]
    /\ UNCHANGED detectorOthers

DetectorReset ==
    /\ rmsDetector' = Reset(rmsDetector)
    /\ detectorEv' = [op |-> "Reset", decided |-> FALSE,
                      calibrated |-> IsCalibrated(rmsDetector)]
    /\ UNCHANGED sinceInitialize
    /\ UNCHANGED detectorOthers

DetectorNext == DetectorInitialize \/ DetectorProcessSample \/ DetectorReset

DetectorSpec == DetectorInit /\ [][DetectorNext]_vars

\* ---------------------------------------------------------------------
\* Shutdown: the statements of the two goroutines as steps
\* ---------------------------------------------------------------------
ShutdownInit ==
    /\ EngineIdle
    /\ ConvIdle
    /\ AuxIdle

PcOf(g) == IF g = "main" THEN mainPc ELSE signalPc

OtherPc(g) == IF g = "main" THEN signalPc ELSE mainPc

\* goroutine g moves to pc
Goto(g, to) ==
    /\ mainPc' = IF g = "main" THEN to ELSE mainPc
    /\ signalPc' = IF g = "main" THEN signalPc ELSE to

\* the loop calls Transcribe (a wake-word check or an utterance): with the
\* model not loaded the call returns ErrModelNotLoaded at once
TranscribeStart ==
    /\ process = "running"
    /\ mainPc = "loop"
    /\ transcribeCalls < MaxTranscribeCalls
    /\ transcribeCalls' = transcribeCalls + 1
    /\ Goto("main", IF isLoaded THEN "transcribing" ELSE "loop")
    /\ shutdownEv' = [op |-> "Transcribe", by |-> "main",
                      outcome |-> IF isLoaded THEN "ok" ELSE "ErrModelNotLoaded"]
    /\ UNCHANGED <<process, isLoaded, modelClosed>>
    /\ UNCHANGED shutdownOthers

\* the Transcribe call returns
TranscribeReturn ==
    /\ process = "running"
    /\ mainPc = "transcribing"
    /\ \E outcome \in Outcomes(modelClosed > 0) :
         /\ process' = IF outcome = "crash" THEN "crashed" ELSE process
         /\ shutdownEv' = [op |-> "TranscribeReturn", by |-> "main", outcome |-> outcome]
    /\ Goto("main", "loop")
    /\ UNCHANGED <<isLoaded, modelClosed, transcribeCalls>>
    /\ UNCHANGED shutdownOthers

\* a read error: ProcessStream returns, runApp returns and runs the
\* deferred processor.Close(), whatever the signal goroutine is doing
LoopEnds ==
    /\ process = "running"
    /\ mainPc = "loop"
    /\ Goto("main", "stop")
    /\ shutdownEv' = [op |-> "Close", by |-> "main", outcome |-> "ok"]
    /\ UNCHANGED <<process, isLoaded, modelClosed, transcribeCalls>>
    /\ UNCHANGED shutdownOthers

\* "<-sigChan": the signal goroutine calls processor.Close(), whatever the
\* main goroutine is doing (no lock, no channel between the two)
SignalReceived ==
    /\ process = "running"
    /\ signalPc = "wait"
    /\ Goto("signal", "stop")
    /\ shutdownEv' = [op |-> "Close", by |-> "signal", outcome |-> "ok"]
    /\ UNCHANGED <<process, isLoaded, modelClosed, transcribeCalls>>
    /\ UNCHANGED shutdownOthers

\* sp.audioCapture.Stop(), which does nothing
CloseStop(g) ==
    /\ process = "running"
    /\ PcOf(g) = "stop"
    /\ Goto(g, "check")
    /\ shutdownEv' = [op |-> "Stop", by |-> g, outcome |-> "ok"]
    /\ UNCHANGED <<process, isLoaded, modelClosed, transcribeCalls>>
    /\ UNCHANGED shutdownOthers

\* Service.Close: "if s.isLoaded && s.model != nil", then s.model.Close()
\* is entered
CloseCheck(g) ==
    /\ process = "running"
    /\ PcOf(g) = "check"
    /\ Goto(g, IF isLoaded THEN "modelClose" ELSE "closed")
    /\ modelClosed' = IF isLoaded THEN modelClosed + 1 ELSE modelClosed
    /\ shutdownEv' = [op |-> "ServiceClose", by |-> g, outcome |-> "ok"]
    /\ UNCHANGED <<process, isLoaded, transcribeCalls>>
    /\ UNCHANGED shutdownOthers

\* s.model.Close() returns
CloseModel(g) ==
    /\ process = "running"
    /\ PcOf(g) = "modelClose"
    /\ \E outcome \in Outcomes(modelClosed > 1) :
         /\ process' = IF outcome = "crash" THEN "crashed" ELSE process
         /\ shutdownEv' = [op |-> "ModelClose", by |-> g, outcome |-> outcome]
    /\ Goto(g, "store")
    /\ UNCHANGED <<isLoaded, modelClosed, transcribeCalls>>
    /\ UNCHANGED shutdownOthers

\* "s.isLoaded = false"
CloseStore(g) ==
    /\ process = "running"
    /\ PcOf(g) = "store"
    /\ isLoaded' = FALSE
    /\ Goto(g, "closed")
    /\ shutdownEv' = [op |-> "Store", by |-> g, outcome |-> "ok"]
    /\ UNCHANGED <<process, modelClosed, transcribeCalls>>
    /\ UNCHANGED shutdownOthers

\* Close has returned: runApp returns in the main goroutine, os.Exit(0) in
\* the signal goroutine; either ends the process
ProcessEnds(g) ==
    /\ process = "running"
    /\ PcOf(g) = "closed"
    /\ process' = IF g = "main" THEN "returned" ELSE "exited"
    /\ shutdownEv' = [op |-> "End", by |-> g, outcome |-> "ok"]
    /\ UNCHANGED <<mainPc, signalPc, isLoaded, modelClosed, transcribeCalls>>
    /\ UNCHANGED shutdownOthers

ShutdownNext ==
    \/ TranscribeStart
    \/ TranscribeReturn
    \/ LoopEnds
    \/ SignalReceived
    \/ \E g \in {"main", "signal"} :
         \/ CloseStop(g)
         \/ CloseCheck(g)
         \/ CloseModel(g)
         \/ CloseStore(g)
         \/ ProcessEnds(g)

ShutdownSpec == ShutdownInit /\ [][ShutdownNext]_vars

\* ---------------------------------------------------------------------
\* Wake-word gate
\* ---------------------------------------------------------------------
\* the main loop is about to run a sample, which reads sp.listeningActive
\* (line 231) and may write it (line 223)
MainAtFlagAccess == pc = "samples" /\ wakeWordEnabled

\* a timer goroutine is about to write sp.listeningActive (line 156)
TimerAtFlagWrite == \E i \in 1..Len(timers) : SleepOver(timers[i])

\* time the most recent detection lies back, in ticks, as far as its timer
\* tells
LatestTimerSlept == timers[Len(timers)]

C2_DeactivationOnlyAfterLatestTimeout ==
    [][ (listeningActive /\ ~listeningActive')
        => (timers # <<>> /\ SleepOver(LatestTimerSlept)) ]_vars

\* C3: at most one deactivation timer is pending in every reachable state.
C3_AtMostOneTimerPending == Len(timers) <= 1

\* C4: the timer's write of listeningActive never stands unordered against an
\* access of the main loop: no state has a timer goroutine about to write the
\* flag while the sample loop is about to read or write it.  (The code takes
\* no lock and sends no message around either access, so two accesses that
\* are both enabled are a data race; and the flag then has two writers.)
C4_FlagAccessSynchronized == ~(TimerAtFlagWrite /\ MainAtFlagAccess)

\* C5: with the wake word enabled, a Listening gate eventually returns to
\* Dormant unless the wake word is detected again first (or the session
\* ends), whatever the detector is doing.
C5_ListeningEventuallyDormant ==
    (wakeWordEnabled /\ listeningActive /\ pc # "done")
        ~> (~listeningActive \/ ev.detected \/ pc = "done")

\* C5 witness: a timer has switched the gate to Dormant in the middle of a
\* phrase (the detector is speaking).
C5_Witness ==
    /\ wakeWordEnabled /\ ~listeningActive
    /\ ev.op = "expire"
    /\ vad.isSpeaking

\* ---------------------------------------------------------------------
\* Phrase buffer
\* ---------------------------------------------------------------------
\* C6: the phrase buffer never holds more than maxBufferSize samples.
C6_BufferWithinCeiling == audioBufferLen <= maxBufferSize

\* C7: the ceiling check flushes exactly when the buffer has reached
\* maxBufferSize: then the whole buffer is handed to the Recognizer whatever
\* the detector state, the buffer is emptied and the detector reset; below the
\* ceiling nothing is handed over or changed.  Every chunk therefore starts
\* below the ceiling, so a second forced flush needs maxBufferSize new samples.
C7_ForcedFlushAtCeiling ==
    [][ /\ (pc = "ceiling" /\ pc' = "read")
           => IF audioBufferLen >= maxBufferSize
              THEN /\ ev'.forced
                   /\ ev'.handed = audioBufferLen
                   /\ audioBufferLen' = 0
                   /\ ~vad'.isSpeaking
                   /\ vad'.silenceSamples = 0
                   /\ vad'.speechSamples = 0
              ELSE /\ ~ev'.forced
                   /\ ev'.handed = 0
                   /\ audioBufferLen' = audioBufferLen
                   /\ vad' = vad
        /\ pc' = "read" => audioBufferLen' < maxBufferSize
        /\ ev'.forced => (pc = "ceiling" /\ ev'.handed >= maxBufferSize) ]_vars

\* C7 witness: a forced flush of a buffer in which every sample was above the
\* threshold (the detector was speaking all along).
C7_Witness ==
    /\ ev.forced
    /\ ev.handed >= maxBufferSize
    /\ ev.handedSpeech = ev.handed

\* ---------------------------------------------------------------------
\* Voice activity
\* ---------------------------------------------------------------------
\* the detector is speaking and one more sample below the threshold still
\* leaves the silence run shorter than silenceDurationSamples
InShortSilence ==
    vad.isSpeaking /\ vad.silenceSamples + 1 < silenceThresholdSamples

\* C8 as claimed: while the silence run is shorter than
\* silenceDurationSamples no step ends the phrase: isSpeaking stays true and
\* nothing is flushed or reset.
C8_Original_ShortSilenceNeverEndsPhrase ==
    [][ InShortSilence
        => /\ vad'.isSpeaking
           /\ ev'.handed = 0
           /\ audioBufferLen' >= audioBufferLen ]_vars

\* C8 amended: while the silence run is shorter than silenceDurationSamples
\* the phrase is not ended, except by the forced flush of the ceiling check;
\* a sample above the threshold sets the silence counter to 0, a sample below
\* it adds one.
C8_ShortSilenceEndsOnlyAtCeiling ==
    [][ InShortSilence
        => \/ pc = "ceiling" /\ audioBufferLen >= maxBufferSize /\ ev'.forced
           \/ /\ vad'.isSpeaking
              /\ ev'.handed = 0
              /\ ~ev'.completed
              /\ audioBufferLen' >= audioBufferLen
              /\ (ev'.piped /\ ev'.above) => vad'.silenceSamples = 0
              /\ (ev'.piped /\ ~ev'.above)
                    => vad'.silenceSamples = vad.silenceSamples + 1
              /\ ~ev'.piped => vad' = vad ]_vars

\* C8 witness: the detector is still speaking after a silence run one sample
\* short of silenceDurationSamples.
C8_Witness ==
    /\ ev.op = "sample" /\ ev.piped /\ ~ev.above
    /\ vad.isSpeaking
    /\ vad.silenceSamples = silenceThresholdSamples - 1

\* C9: a phrase completed by silence whose above-threshold part is shorter
\* than minSpeechSamples is never handed to the Recognizer.
C9_ShortPhraseNeverTranscribed ==
    ~(ev.op = "sample" /\ ev.completed /\ ev.handed > 0
      /\ ev.handedSpeech < minSpeechSamples)

\* C10: after calibration a sample seen while the detector is Silent (not
\* speaking, level not above the threshold) is not appended to the phrase
\* buffer.
C10_SilentSampleNotBuffered ==
    [][ (ev'.op = "sample" /\ ev'.piped /\ ~vad.calibrating
         /\ ~vad.isSpeaking /\ ~ev'.above)
        => audioBufferLen' = audioBufferLen ]_vars

\* ---------------------------------------------------------------------
\* Phrase completion and calibration
\* ---------------------------------------------------------------------
\* C11: after calibration a sample completes the phrase exactly when the
\* detector is speaking and that sample brings the silence counter to
\* silenceDurationSamples; the test runs on every sample, so the counter is
\* below silenceDurationSamples in every state and a phrase completes once;
\* at a completion, handed to the Recognizer or not, the phrase buffer is
\* empty and the detector reset before the next sample; nothing but a sample
\* fed to the detector completes a phrase.
C11_CompletionAtSilenceThreshold ==
    [][ /\ (ev'.op = "sample" /\ ev'.piped /\ ~InCalibration(vad))
           => (ev'.completed
                 <=> /\ vad.isSpeaking
                     /\ ~ev'.above
                     /\ vad.silenceSamples + 1 = silenceThresholdSamples)
        /\ ev'.completed
           => /\ ev'.op = "sample" /\ ev'.piped
              /\ audioBufferLen' = 0
              /\ ~vad'.isSpeaking
              /\ vad'.silenceSamples = 0
              /\ vad'.speechSamples = 0
        /\ vad'.silenceSamples < silenceThresholdSamples ]_vars

\* C11 witness: a phrase was completed by silence and handed to the
\* Recognizer, and the buffer and the detector are reset.
C11_Witness ==
    /\ ev.op = "sample" /\ ev.completed /\ ev.handed > 0
    /\ audioBufferLen = 0
    /\ ~vad.isSpeaking /\ vad.silenceSamples = 0

\* C12: a sample fed to the detector while it calibrates (the N-th included)
\* takes no decision: isSpeaking stays false, the counters stay 0,
\* ProcessSample returns false, no phrase completes and nothing is handed
\* over, and the sample is still appended to the phrase buffer.
C12_NoDecisionWhileCalibrating ==
    [][ /\ InCalibration(vad)
           => /\ ~vad.isSpeaking
              /\ vad.silenceSamples = 0
              /\ vad.speechSamples = 0
        /\ (ev'.op = "sample" /\ ev'.piped /\ InCalibration(vad))
           => /\ ev'.calib
              /\ ~vad'.isSpeaking
              /\ vad'.silenceSamples = 0
              /\ vad'.speechSamples = 0
              /\ ~ev'.returned
              /\ ~ev'.completed
              /\ ev'.handed = 0
              /\ audioBufferLen' = audioBufferLen + 1
              /\ vad'.noiseFloorSamplesCount = vad.noiseFloorSamplesCount + 1 ]_vars

\* C12 witness: the N-th calibration sample was a loud one and the detector
\* is not speaking; the N samples are in the phrase buffer.
C12_Witness ==
    /\ ev.op = "sample" /\ ev.calib
    /\ ~vad.calibrating
    /\ vad.rmsBuffer[Len(vad.rmsBuffer)] > 0
    /\ ~vad.isSpeaking
    /\ audioBufferLen = noiseFloorSamples

\* max(SilenceThreshold, 3 * (sum / N))
ThresholdFor(sum) ==
    IF 3 * (sum \div noiseFloorSamples) < silenceThreshold THEN silenceThreshold
    ELSE 3 * (sum \div noiseFloorSamples)

\* C13: each calibration sample adds its RMS reading to the sum; the N-th
\* one, and no other, sets adaptiveThreshold to max(SilenceThreshold,
\* 3 * (sum / N)) and ends calibration; from then on no step (ProcessSample,
\* Reset) changes the threshold, the sum or the count, or returns to
\* calibrating.
C13_ThresholdSetOnceAtNthSample ==
    [][ /\ (ev'.op = "sample" /\ ev'.piped /\ InCalibration(vad))
           => /\ vad'.noiseFloorSum
                    = vad.noiseFloorSum + calculateRMS(vad'.rmsBuffer)
              /\ IF vad.noiseFloorSamplesCount + 1 = noiseFloorSamples
                 THEN /\ ~vad'.calibrating
                      /\ vad'.adaptiveThreshold = ThresholdFor(vad'.noiseFloorSum)
                 ELSE /\ vad'.calibrating
                      /\ vad'.adaptiveThreshold = vad.adaptiveThreshold
        /\ ~(ev'.op = "sample" /\ ev'.piped)
           => /\ vad'.calibrating = vad.calibrating
              /\ vad'.adaptiveThreshold = vad.adaptiveThreshold
        /\ ~vad.calibrating
           => /\ ~vad'.calibrating
              /\ vad'.adaptiveThreshold = vad.adaptiveThreshold
              /\ vad'.noiseFloorSum = vad.noiseFloorSum
              /\ vad'.noiseFloorSamplesCount = vad.noiseFloorSamplesCount
              /\ vad.noiseFloorSamplesCount = noiseFloorSamples ]_vars

\* C13 witness: calibration over digital silence ended with the threshold at
\* its floor, and a phrase has since been completed and the detector reset.
C13_Witness ==
    /\ ~vad.calibrating
    /\ vad.noiseFloorSum = 0
    /\ vad.adaptiveThreshold = silenceThreshold
    /\ ev.completed

\* C14: while the detector calibrates (also when the stream ends before the
\* N-th sample) adaptiveThreshold is SilenceThreshold, and in every state it
\* is at least SilenceThreshold.
C14_ThresholdAtLeastFloor ==
    /\ vad.calibrating => vad.adaptiveThreshold = silenceThreshold
    /\ vad.adaptiveThreshold >= silenceThreshold

\* C14 witness: the stream ended in the middle of calibration, after a loud
\* sample.
C14_Witness ==
    /\ pc = "done"
    /\ vad.calibrating
    /\ vad.noiseFloorSamplesCount > 0
    /\ vad.noiseFloorSum > 0

\* C15: calibration is complete as soon as N samples have been read from the
\* stream, whatever the state of the wake-word gate.
C15_CalibratedAfterFirstNSamples ==
    samplesRead >= noiseFloorSamples => ~vad.calibrating

\* ---------------------------------------------------------------------
\* Conversation history
\* ---------------------------------------------------------------------
\* the messages of msgs that are not system messages, in order
NonSystem(msgs) == SelectSeq(msgs, LAMBDA x : x.role # "system")

\* number of system messages in msgs
SystemCount(msgs) == Len(SelectSeq(msgs, LAMBDA x : x.role = "system"))

\* the last n elements of s
LastN(s, n) == SubSeq(s, Len(s) - n + 1, Len(s))

IsSuffix(s, t) == Len(s) <= Len(t) /\ s = LastN(t, Len(s))

Least(a, b) == IF a < b THEN a ELSE b

\* C16: once a system prompt is set, the system message carrying it is at
\* index 0 of the history in every later state, whatever is added and however
\* often the history is trimmed.
C16_SystemMessageSurvivesTrimming ==
    systemPrompt # ""
        => /\ messages # <<>>
           /\ messages[1] = Message("system", systemPrompt)

\* C16 witness: with a system prompt set, AddMessage has trimmed the history
\* and the system message is still first.
C16_Witness ==
    /\ systemPrompt # ""
    /\ lastCall.op = "AddMessage"
    /\ Len(added) >= maxHistory + 1
    /\ Len(messages) = maxHistory
    /\ messages[1] = Message("system", systemPrompt)

\* C17: after every operation GetMessageCount() is at most maxHistory.
C17_CountWithinMaxHistory == GetMessageCount <= maxHistory

\* C18: the history holds at most one system message, and a system message
\* is at index 0.
C18_OneSystemMessageAtFront ==
    /\ SystemCount(messages) <= 1
    /\ SystemCount(messages) = 1 => messages[1].role = "system"

\* C19: trimming evicts the oldest first: the non-system messages kept are
\* the most recently added ones in the order they were added; with a single
\* system message in front AddMessage of a non-system message keeps the last
\* maxHistory - 1 of them; and after AddMessage calls alone, none of a system
\* message, the history is exactly the last min(n, maxHistory) messages added.
C19_OldestEvictedFirst ==
    [][ /\ IsSuffix(NonSystem(messages'), NonSystem(added'))
        /\ (lastCall'.op = "AddMessage"
            /\ SystemCount(messages) = 1
            /\ messages[1].role = "system"
            /\ Len(messages) <= maxHistory
            /\ added'[Len(added')].role # "system")
           => NonSystem(messages')
                 = LastN(Append(NonSystem(messages), added'[Len(added')]),
                         Least(Len(messages), maxHistory - 1))
        /\ (addOnly' /\ SystemCount(added') = 0)
           => messages' = LastN(added', Least(Len(added'), maxHistory)) ]_vars

\* C19 witness: after AddMessage calls alone, more than maxHistory of them,
\* the history is the last maxHistory messages added.
C19_Witness ==
    /\ addOnly
    /\ SystemCount(added) = 0
    /\ Len(added) >= maxHistory + 2
    /\ messages = LastN(added, maxHistory)

\* C20: SetSystemPrompt(p) with p non-empty leaves exactly one system
\* message, with content p, at index 0, followed by the non-system messages
\* in their order; SetSystemPrompt("") leaves the non-system messages alone;
\* calling it a second time with the same p changes nothing.
C20_SetSystemPromptReplaces ==
    [][ lastCall'.op = "SetSystemPrompt"
        => /\ messages'
                = (IF lastCall'.arg # ""
                   THEN <<Message("system", lastCall'.arg)>> ELSE <<>>)
                  \o NonSystem(messages)
           /\ AfterSetSystemPrompt(messages', lastCall'.arg) = messages'
           /\ systemPrompt' = lastCall'.arg ]_vars

\* C21: ClearHistory leaves no non-system message; when the history held a
\* system message, one of them is left, with its content, as the only
\* element (the one at index 0 when that is a system message); with no
\* system message the history is empty; systemPrompt and maxHistory are
\* unchanged.
C21_ClearHistoryKeepsSystemOnly ==
    [][ lastCall'.op = "ClearHistory"
        => /\ IF SystemCount(messages) = 0
              THEN messages' = <<>>
              ELSE /\ Len(messages') = 1
                   /\ messages'[1].role = "system"
                   /\ \E i \in 1..Len(messages) : messages[i] = messages'[1]
                   /\ messages[1].role = "system" => messages'[1] = messages[1]
           /\ systemPrompt' = systemPrompt
           /\ maxHistory' = maxHistory ]_vars

\* C21 witness: ClearHistory has emptied a history of several messages down
\* to the system message of the prompt.
C21_Witness ==
    /\ lastCall.op = "ClearHistory"
    /\ systemPrompt # ""
    /\ messages = <<Message("system", systemPrompt)>>
    /\ Len(added) >= 2

\* C22: a GetMessages call copies the history as the last complete mutating
\* call left it (no mutating call is in progress while it copies), and the
\* slice a goroutine holds changes only when that goroutine's own next
\* GetMessages call replaces it, whatever the other calls do to c.messages.
C22_GetMessagesConsistentSnapshot ==
    [][ \A p \in Callers :
          /\ (callers[p].pc = "get_copy" /\ callers'[p].pc = "get_return")
                => /\ mutex.writer = ""
                   /\ callers'[p].result.items = committed
          /\ callers'[p].result.items # callers[p].result.items
                => callers[p].pc = "get_copy" ]_vars

\* C22 witness: a goroutine holds a slice with a system message in front
\* while another goroutine, in the middle of SetSystemPrompt, has removed
\* that message from c.messages and not yet put the new one in.
C22_Witness ==
    \E p \in Callers :
    \E q \in Callers \ {p} :
        /\ callers[p].pc = "idle"
        /\ Len(callers[p].result.items) >= 2
        /\ callers[p].result.items[1].role = "system"
        /\ callers[q].pc = "set_prepend"
        /\ messages # callers[p].result.items
        /\ messages # committed

\* ---------------------------------------------------------------------
\* Sample decoding
\* ---------------------------------------------------------------------
\* bit k of x
Bit(x, k) == (x \div (2 ^ k)) % 2

\* bit k (0..31) of a sample
SampleBit(s, k) == IF k < 16 THEN Bit(s.lo, k) ELSE Bit(s.hi, k - 16)

C24_RecognizerErrorNotFatal ==
    [][ /\ ev'.heard = "error"
           => /\ ~ev'.detected
              /\ listeningActive' = listeningActive
              /\ timers' = timers
              /\ wakeWordBufferLen' = WakeAppend(wakeWordBufferLen)
              /\ pc' \in {"samples", "ceiling"}
        /\ ev'.result = "error"
           => /\ ~ev'.emitted
              /\ audioBufferLen' = 0
              /\ ~vad'.isSpeaking
              /\ vad'.silenceSamples = 0
              /\ vad'.speechSamples = 0
              /\ pc' \in {"samples", "ceiling", "read"}
              /\ audioStreamOpen' /\ whisperOpen' ]_vars

\* C24 witness: the transcription of a completed phrase failed in the middle
\* of a chunk, in a sample step whose wake-word check had failed too; the
\* buffer is empty and the next sample of the chunk is due.
C24_Witness ==
    /\ ev.op = "sample"
    /\ ev.heard = "error"
    /\ ev.result = "error" /\ ev.completed /\ ev.handed > 0
    /\ audioBufferLen = 0
    /\ pc = "samples"

\* C25: a failing Read ends the session: nothing is handed to the Recognizer
\* on that path, the phrase buffer is left as it is, the audio stream and the
\* Recognizer are closed, and afterwards no step reads, processes a sample or
\* hands anything over.
C25_ReadErrorEndsSession ==
    [][ /\ ev'.op = "error"
           => /\ pc = "read" /\ pc' = "done"
              /\ ev'.handed = 0
              /\ ~ev'.emitted
              /\ audioBufferLen' = audioBufferLen
              /\ ~audioStreamOpen'
              /\ ~whisperOpen'
        /\ pc = "done"
           => /\ pc' = "done"
              /\ ev' = ev
              /\ audioBufferLen' = audioBufferLen
              /\ vad' = vad ]_vars

\* C25 witness: the session ended on a read error in the middle of a phrase;
\* the samples of the phrase are still in the buffer and both resources are
\* closed.
C25_Witness ==
    /\ pc = "done"
    /\ ev.op = "error"
    /\ audioBufferLen >= minSpeechSamples
    /\ vad.isSpeaking
    /\ ~audioStreamOpen /\ ~whisperOpen

\* C26: when the process has ended on a cancellation signal, the audio
\* stream is closed and the Recognizer is closed.
C26_SignalReleasesResources ==
    (pc = "done" /\ ev.op = "signal") => (~audioStreamOpen /\ ~whisperOpen)

\* ---------------------------------------------------------------------
\* Wake-word buffer
\* ---------------------------------------------------------------------
\* C27: the wake-word buffer is submitted to the Recognizer once per
\* sampleRate/2 samples appended: a submission comes exactly sampleRate/2
\* appends after the one before it (or after the start of the session), also
\* when the buffer is full, and the buffer submitted holds at least
\* sampleRate/2 samples.
C27_WakeCheckEveryHalfSecond ==
    [][ /\ wakeEv'.submitted
           => /\ sinceSubmit + 1 = sampleRate \div 2
              /\ Len(WakeAppendData(wakeWordBuffer, wakeStreamPos')) >= sampleRate \div 2
        /\ (wakeStreamPos' # wakeStreamPos /\ sinceSubmit + 1 = sampleRate \div 2)
           => wakeEv'.submitted ]_vars

C29_DetectionOpensGate ==
    [][ /\ ev'.detected
           => /\ ev'.op = "sample"
              /\ listeningActive'
              /\ wakeWordBufferLen' = 0
              /\ Len(timers') = Len(timers) + 1
              /\ timers'[Len(timers')] = 0
        /\ (ev'.op = "sample" /\ wakeWordEnabled /\ (listeningActive \/ ev'.detected))
           => /\ ev'.piped
              /\ audioBufferLen' = IF ev'.completed THEN 0 ELSE audioBufferLen + 1
              /\ \E sample \in Samples :
                    vad' = IF ev'.completed THEN Reset(ProcessSample(vad, sample))
                           ELSE ProcessSample(vad, sample) ]_vars

\* C29 witness: the detecting sample is the first of the phrase buffer, the
\* detector has started to calibrate on it, the gate is Listening with one
\* timer started and the wake-word buffer is empty.
C29_Witness ==
    /\ wakeWordEnabled
    /\ ev.op = "sample" /\ ev.detected /\ ev.piped
    /\ listeningActive
    /\ wakeWordBufferLen = 0
    /\ audioBufferLen = 1
    /\ vad.noiseFloorSamplesCount = 1
    /\ Len(timers) = 1

\* s * s <= meanSquare * One, for s up to One plus a few percent, computed
\* on the thousands and the units of s so as to stay within 32 bits
SquareAtMost(s, meanSquare) ==
    LET a == s \div 1000
        b == s % 1000
        t == 2 * a * b * 1000 + b * b
    IN  a * a + (t + One - 1) \div One <= meanSquare

\* the largest s between lo and hi - 1 with s * s <= meanSquare * One
RECURSIVE SqrtBetween(_, _, _)
SqrtBetween(lo, hi, meanSquare) ==
    IF hi - lo <= 1 THEN lo
    ELSE LET mid == (lo + hi) \div 2
         IN  IF SquareAtMost(mid, meanSquare)
             THEN SqrtBetween(mid, hi, meanSquare)
             ELSE SqrtBetween(lo, mid, meanSquare)

\* the exact square root of a mean square, rounded down to a millionth
ExactSqrt(meanSquare) == SqrtBetween(0, One + 1, meanSquare)

\* the mean of the window, as calculateRMS computes it
WindowMean(w) == IF Len(w) = 0 THEN 0 ELSE SumSeq(w) \div Len(w)

\* C30: the level calculateRMS returns for the window is within 1e-4
\* relative error of the exact square root of the mean of the window (two
\* millionths are allowed on top for the rounding of the fixed point).
C30_LevelWithinRelativeError ==
    \E s \in {ExactSqrt(WindowMean(levelWindow))} :
        /\ levelOut - s <= s \div 10000 + 2
        /\ s - levelOut <= s \div 10000 + 2

\* C31: Chat is called, and a reply printed, for an utterance only if the
\* conversational layer is enabled and the text, trimmed, has more than 3
\* characters; after a failed probe Chat is never called.
C31_ChatOnlyForMeaningfulText ==
    /\ aiEv.chatCalled
       => /\ aiEnabled
          /\ aiProbe = "ok"
          /\ Len(TrimSpace(aiEv.transcription.text)) > 3
    /\ aiEv.replied => aiEv.chatCalled

\* C34: when processWithAI runs, the request of Chat is the history as the
\* AddMessage of the user message left it and ends with that message; the
\* history changes after that only to take the reply, and only when Chat
\* returned no error, an empty Error field and non-empty content; after a
\* failure the history still ends with the user message.
C34_UserMessageKeptReplyOnlyOnSuccess ==
    [][ aiEv'.chatCalled
        => \E userMsg \in {Message("user", TrimSpace(aiEv'.transcription.text))} :
             /\ aiEv'.request = AfterAddMessage(aiHistory, userMsg, aiMaxHistory)
             /\ aiEv'.request # <<>>
             /\ aiEv'.request[Len(aiEv'.request)] = userMsg
             /\ aiHistory' # aiEv'.request
                => /\ ReplyAccepted(aiEv'.response)
                   /\ aiHistory' = AfterAddMessage(aiEv'.request, aiEv'.response.message,
                                                   aiMaxHistory)
             /\ ~ReplyAccepted(aiEv'.response)
                => /\ aiHistory' = aiEv'.request
                   /\ aiHistory'[Len(aiHistory')] = userMsg ]_vars

\* C32: after calibration ProcessSample returns true exactly when the level
\* of the sample just processed is above the threshold, false otherwise.
C32_ReturnsClassificationOfSample ==
    [][ (ev'.op = "sample" /\ ev'.piped /\ ~ev'.calib)
        => (ev'.returned <=> ev'.above) ]_vars

\* the counters and the flag of the detector
Decision(r) == <<r.isSpeaking, r.silenceSamples, r.speechSamples>>

\* what calibration left in the detector
Calibration(r) ==
    <<r.calibrating, r.noiseFloorSamplesCount, r.noiseFloorSum, r.adaptiveThreshold>>

\* C33: a sample processed after calibration does exactly one of three
\* things: above the threshold, isSpeaking is set, the silence counter zeroed
\* and the speech counter incremented; otherwise, while speaking, the silence
\* counter alone is incremented; otherwise nothing changes.  isSpeaking falls
\* only through Reset (a completed phrase or a forced flush), and a positive
\* silence counter implies isSpeaking.
C33_ThreeTransitions ==
    [][ /\ (ev'.op = "sample" /\ ev'.piped /\ ~ev'.calib /\ ~ev'.completed)
           => /\ Calibration(vad') = Calibration(vad)
              /\ Decision(vad') =
                    IF ev'.above THEN <<TRUE, 0, vad.speechSamples + 1>>
                    ELSE IF vad.isSpeaking
                         THEN <<TRUE, vad.silenceSamples + 1, vad.speechSamples>>
                         ELSE Decision(vad)
        /\ (vad.isSpeaking /\ ~vad'.isSpeaking)
           => /\ ev'.completed \/ ev'.forced
              /\ Decision(vad') = <<FALSE, 0, 0>>
        /\ vad'.silenceSamples > 0 => vad'.isSpeaking ]_vars

\* C33 witness: a silent sample in a phrase has just been counted.
C33_Witness ==
    /\ ev.op = "sample" /\ ev.piped /\ ~ev.calib /\ ~ev.above /\ ~ev.completed
    /\ vad.isSpeaking
    /\ vad.silenceSamples > 0
    /\ vad.speechSamples > 0

\* C35: once noiseFloorSamples samples were processed since the last
\* Initialize, IsCalibrated() is true, and no ProcessSample call takes the
\* decision branch while IsCalibrated() is false.
C35_InitializeRestartsCalibration ==
    /\ sinceInitialize >= noiseFloorSamples => IsCalibrated(rmsDetector)
    /\ (detectorEv.op = "ProcessSample" /\ detectorEv.decided) => detectorEv.calibrated

\* C36: when AddMessage(m) returns, m is stored and is the last message of
\* the history.
C36_AddedMessageIsLast ==
    [][ Len(added') = Len(added) + 1
        => /\ messages' # <<>>
           /\ messages'[Len(messages')] = added'[Len(added')] ]_vars

\* C37: s.model.Close() does not run while a Transcribe call is running, and
\* the two goroutines are never both inside Close.
C37_CloseNeverDuringTranscribe ==
    /\ ~(mainPc = "transcribing" /\ signalPc \in {"modelClose", "store"})
    /\ ~(mainPc \in ClosePcs /\ signalPc \in ClosePcs)

\* the gate is closed: the wake word is enabled and the flag is down
Dormant == wakeWordEnabled /\ ~listeningActive

\* C38 as stated: the expiry of a timer leaves the phrase buffer and the
\* detector as they were, and so does every step taken while the gate is
\* Dormant: what the buffer and the detector held at expiry is there when
\* the gate opens again.
C38_ExpiryKeepsPhraseUntilListening ==
    [][ /\ ev'.op = "expire" => (audioBufferLen' = audioBufferLen /\ vad' = vad)
        /\ (Dormant /\ Dormant') => (audioBufferLen' = audioBufferLen /\ vad' = vad) ]_vars

\* C38 amended: the expiry of a timer leaves the phrase buffer and the
\* detector as they were; while the gate is Dormant they change in one case
\* only, the ceiling check at the end of the chunk, which flushes a buffer
\* that had reached maxBufferSize when the timer expired.
C38_ExpiryKeepsPhraseBelowCeiling ==
    [][ /\ ev'.op = "expire" => (audioBufferLen' = audioBufferLen /\ vad' = vad)
        /\ (Dormant /\ Dormant')
           => \/ audioBufferLen' = audioBufferLen /\ vad' = vad
              \/ /\ ev'.op = "ceiling" /\ ev'.forced
                 /\ audioBufferLen >= maxBufferSize
                 /\ audioBufferLen' = 0 /\ vad' = Reset(vad) ]_vars

\* C38 witness: a timer has just expired on a phrase in progress, which is
\* still in the buffer and in the detector with the gate Dormant.
C38_Witness ==
    /\ ev.op = "expire"
    /\ Dormant
    /\ audioBufferLen > 0 /\ audioBufferLen < maxBufferSize
    /\ vad.isSpeaking
    /\ vad.silenceSamples > 0

\* C39: the ceiling check runs once per chunk, after its samples: every
\* chunk starts with fewer than maxBufferSize samples in the phrase buffer,
\* and the buffer never holds more than maxBufferSize + readChunkSize/4 - 1.
C39_OvershootWithinOneChunk ==
    /\ pc = "read" => audioBufferLen < maxBufferSize
    /\ audioBufferLen <= maxBufferSize + (readChunkSize \div 4 - 1)

\* C39 witness: the buffer holds maxBufferSize + readChunkSize/4 - 1 samples
\* after the last sample of a chunk, the ceiling check still to come.
C39_Witness ==
    /\ pc = "ceiling"
    /\ ev.op = "sample" /\ ev.piped
    /\ audioBufferLen = maxBufferSize + (readChunkSize \div 4 - 1)

=============================================================================
